---- MODULE Spec2Model ----
(***************************************************************************)
(* Real-time collaboration core of DynamicContract.                        *)
(*                                                                         *)
(* Server side: the WebSocket router of registerRoutes (the clients map,   *)
(* the per-connection closure variables userId / contractId, the message   *)
(* and close handlers, broadcastToContract) over MemStorage (presence and  *)
(* contract maps).  Every handler is an async function: it runs            *)
(* synchronously up to its first await (the MemStorage method it calls     *)
(* runs to completion inside that call) and its continuation is a          *)
(* microtask.  Microtasks run first-in first-out and are drained before    *)
(* the event loop takes the next socket event; the ws receiver may emit    *)
(* several message events of ONE connection synchronously from one chunk   *)
(* of socket data, which is the only way a handler starts while others     *)
(* are suspended.                                                          *)
(*                                                                         *)
(* Client side: WebSocketManager (connect, disconnect, send, on, off,      *)
(* emit, attemptReconnect), its transports and its reconnect timers.       *)
(***************************************************************************)
EXTENDS Integers, Sequences, FiniteSets, TLC

(***************************************************************************)
(* Bounds of the model.                                                    *)
(***************************************************************************)
MaxEvents == 3
MaxBurst == 2
MaxTransports == 8
MaxAppCalls == 2
MaxListenerTransports == 4

Conns == {"a", "b"}
Users == {1, 2}
Docs == {1, 2}
NoConn == "none"
NoPos == "nopos"
Null == "null"
Positions == {"p00", "p25"}
JoinPositions == {NoPos, "p00"}
CursorPositions == {"p25"}
Contents == {"x", "y"}

(***************************************************************************)
(* Program constants.                                                      *)
(***************************************************************************)
SampleContractId == 1
maxReconnectAttempts == 5
reconnectDelay == 1000

VARIABLES
  readyState,    \* ws.readyState of every server-side connection
  userId,        \* closure variable userId of every connection (0: undefined)
  contractId,    \* closure variable contractId of every connection (0: undefined)
  clients,       \* the clients map: contractId -> set of connections
  presenceData,  \* MemStorage.presenceData: key -> record
  contracts,     \* MemStorage.contracts: id -> [content, wordCount]
  microtasks,    \* suspended handlers, in the order they will resume
  emitting,      \* connection whose chunk the receiver is emitting, or NoConn
  outbox,        \* the sends of the last step: set of [to, from, msg]
  lastEvent,     \* the handler activity of the last step
  joinedAs,      \* history: the (user, document) pairs each connection joined as
  events,        \* number of inbound events so far
  tracing,       \* the sender and the observer whose history trace keeps
  trace,         \* history: the sender's events and what the observer got from them
  ws,            \* WebSocketManager.ws: the current transport, 0 for null
  reconnectAttempts, \* WebSocketManager.reconnectAttempts
  transports,    \* every WebSocket the manager created, in creation order
  timers,        \* pending setTimeout callbacks of attemptReconnect, oldest first
  clientOut,     \* what the last client step transmitted: set of [transport, msg]
  clientEvent,   \* the client step taken last
  explicit,      \* history: disconnect() was called and connect() not since
  autoSinceDisconnect, \* history: a reconnect was scheduled or made while explicit
  retries,       \* history: reconnect timers fired since the last transport open
  appCalls,      \* history: number of connect() calls made by the application
  lastCursor,    \* history: position of the last cursor_move transmitted, or NoPos
  scheduled,     \* history: reconnects scheduled since the last transport open
  listeners,     \* WebSocketManager.listeners: event kind -> set of callbacks
  registered,    \* history: <<kind, callback>> of every on() not undone by an off()
  activeUsers,   \* usePresence: the activeUsers list
  cursors,       \* usePresence: the cursors list
  viewEvent,     \* the message the presence view handled last
  seenJoined,    \* history: user -> position of its last joined, Absent after a left
  seenCursor     \* history: user -> position of its last cursor_update, Absent after a left

serverVars == <<readyState, userId, contractId, clients, presenceData, contracts,
                microtasks, emitting, outbox, lastEvent, joinedAs, events, tracing,
                trace>>
clientVars == <<ws, reconnectAttempts, transports, timers, clientOut, clientEvent,
                explicit, autoSinceDisconnect, retries, appCalls, lastCursor,
                scheduled, listeners, registered, activeUsers, cursors,
                viewEvent, seenJoined, seenCursor>>
viewVars == <<activeUsers, cursors, viewEvent, seenJoined, seenCursor>>
vars == <<serverVars, clientVars>>

(***************************************************************************)
(* Values.  A missing or falsy id is 0 (the handlers only test ids for     *)
(* truthiness); a missing position is NoPos.                               *)
(***************************************************************************)
Truthy(x) == x # 0

JoinMsgs == [type : {"join"}, userId : Users \cup {0}, contractId : Docs \cup {0},
             position : JoinPositions]
CursorMsgs == [type : {"cursor_move"}, position : CursorPositions]
ContentMsgs == {[type |-> "content_change", content |-> "x", wordCount |-> 7],
                [type |-> "content_change", content |-> "y", wordCount |-> 0]}
UnknownMsgs == [type : {"ping"}]
Unparseable == [type |-> "unparseable"]
Frames == JoinMsgs \cup CursorMsgs \cup ContentMsgs \cup UnknownMsgs \cup {Unparseable}

\* JSON.parse(data.toString()) throws on text that is no JSON
Parses(data) == data.type # "unparseable"

CloseEvent == [type |-> "close"]
NoEvent == [conn |-> NoConn, msg |-> [type |-> "none"], stage |-> "none", value |-> TRUE]
ErrorMsg == [type |-> "error", message |-> "Invalid message format"]

(***************************************************************************)
(* MemStorage: presence.                                                   *)
(***************************************************************************)
\* the key `${userId}-${contractId}`
PresenceKey(u, d) == <<u, "-", d>>

\* crypto.randomUUID(): an id no record holds (records are never deleted)
FreshId(store) == Cardinality(DOMAIN store) + 1

\* (mutant) upsertPresence without existing?.id: every call draws a new id
UpsertPresenceNewId(store, u, d, pos, active) ==
  LET key == PresenceKey(u, d)
      rec == [userId |-> u, contractId |-> d, position |-> pos,
              isActive |-> active, id |-> FreshId(store)]
  IN  [k \in DOMAIN store \cup {key} |-> IF k = key THEN rec ELSE store[k]]

UpsertPresence(store, u, d, pos, active) ==
  LET key == PresenceKey(u, d)
      id  == IF key \in DOMAIN store THEN store[key].id ELSE FreshId(store)
      rec == [userId |-> u, contractId |-> d, position |-> pos,
              isActive |-> active, id |-> id]
  IN  [k \in DOMAIN store \cup {key} |-> IF k = key THEN rec ELSE store[k]]

\* (mutant) removePresence deleting the record
RemovePresenceDeleting(store, u, d) ==
  [k \in DOMAIN store \ {PresenceKey(u, d)} |-> store[k]]

RemovePresence(store, u, d) ==
  LET key == PresenceKey(u, d)
  IN  IF key \in DOMAIN store
        THEN [store EXCEPT ![key].isActive = FALSE]
        ELSE store

\* (mutant) removePresence returning true whether or not a record exists
RemovePresenceAlwaysTrue(store, u, d) == TRUE

RemovePresenceResult(store, u, d) == PresenceKey(u, d) \in DOMAIN store

GetPresenceByContract(store, d) ==
  {store[k] : k \in {x \in DOMAIN store : store[x].contractId = d /\ store[x].isActive}}

(***************************************************************************)
(* MemStorage: contracts.                                                  *)
(***************************************************************************)
\* (mutant) updateContract merging: the first write to a document's content stays
UpdateContractMerging(store, id, content, wordCount) ==
  IF id \in DOMAIN store
    THEN [store EXCEPT ![id] = [content |-> IF @.content = "sample" THEN content
                                                                    ELSE @.content,
                                wordCount |-> wordCount]]
    ELSE store

UpdateContract(store, id, content, wordCount) ==
  IF id \in DOMAIN store
    THEN [store EXCEPT ![id] = [content |-> content, wordCount |-> wordCount]]
    ELSE store

\* the value updateContract resolves to: the record, or undefined
UpdateContractFound(store, id) == id \in DOMAIN store

(***************************************************************************)
(* The clients map.                                                        *)
(***************************************************************************)
\* (mutant) case 'join' taking the join of a member for a leave
RegisterOrLeave(map, d, conn) ==
  [k \in DOMAIN map \cup {d} |->
     IF k = d THEN (IF d \notin DOMAIN map THEN {conn}
                    ELSE IF conn \in map[d] THEN map[d] \ {conn}
                    ELSE map[d] \cup {conn})
              ELSE map[k]]

Register(map, d, conn) ==
  [k \in DOMAIN map \cup {d} |->
     IF k = d THEN (IF d \in DOMAIN map THEN map[d] ELSE {}) \cup {conn}
              ELSE map[k]]

\* (mutant) the close handler without clients.delete(contractId)
UnregisterKeepingSet(map, d, conn) ==
  IF d \notin DOMAIN map THEN map ELSE [map EXCEPT ![d] = map[d] \ {conn}]

Unregister(map, d, conn) ==
  IF d \notin DOMAIN map THEN map
  ELSE IF map[d] \ {conn} = {}
         THEN [k \in DOMAIN map \ {d} |-> map[k]]
         ELSE [map EXCEPT ![d] = map[d] \ {conn}]

\* (mutant) broadcastToContract without the client !== excludeWs test
BroadcastToAll(map, d, message, excludeWs, from) ==
  IF d \in DOMAIN map
    THEN {[to |-> cl, from |-> from, msg |-> message] :
            cl \in {x \in map[d] : readyState[x] = "OPEN"}}
    ELSE {}

\* broadcastToContract: the sends it performs, given the clients map
BroadcastToContract(map, d, message, excludeWs, from) ==
  IF d \in DOMAIN map
    THEN {[to |-> cl, from |-> from, msg |-> message] :
            cl \in {x \in map[d] : x # excludeWs /\ readyState[x] = "OPEN"}}
    ELSE {}

(***************************************************************************)
(* Bookkeeping shared by the server steps: what the step handled, what it  *)
(* sent, and (when tracing) the history of both.                           *)
(***************************************************************************)
\* The history kept for one sender and one observer (tracing names them), for
\* as long as the sender follows the script connection, join (with both ids),
\* cursor_move ..., close and the observer is an open member of the joined
\* document's set: sent, the sender's inbound events in the order their
\* handlers started; inbox, what the observer received from the sender's
\* handlers, in order.  Once the script is left the history is OffTrace for
\* good; nothing is kept when tracing is NoTrace.
NoTrace == [sender |-> NoConn, observer |-> NoConn]
EmptyTrace == [sent |-> <<>>, inbox |-> <<>>]
OffTrace == [sent |-> <<[type |-> "off"]>>, inbox |-> <<>>]

OnScript(sent) ==
  /\ Len(sent) >= 1 => sent[1].type = "connection"
  /\ Len(sent) >= 2 => /\ sent[2].type = "join"
                       /\ Truthy(sent[2].userId)
                       /\ Truthy(sent[2].contractId)
  /\ \A i \in 3..Len(sent) :
       \/ sent[i].type = "cursor_move"
       \/ sent[i].type = "close" /\ i = Len(sent)

SetToSeq(S) == IF S = {} THEN <<>> ELSE <<CHOOSE x \in S : TRUE>>

ObserverSubscribed(d) ==
  /\ readyState[tracing.observer] = "OPEN"
  /\ d \in DOMAIN clients
  /\ tracing.observer \in clients[d]

Trace(c, m, stage, out) ==
  IF tracing = NoTrace \/ trace = OffTrace THEN trace
  ELSE IF c = tracing.observer /\ m.type = "close" THEN OffTrace
  ELSE IF c = tracing.sender /\ stage \in {"sync", "suspended"}
         THEN IF /\ OnScript(Append(trace.sent, m))
                 /\ m.type = "join" => ObserverSubscribed(m.contractId)
                THEN [trace EXCEPT !.sent = Append(trace.sent, m)]
                ELSE OffTrace
  ELSE [trace EXCEPT !.inbox = trace.inbox \o
          SetToSeq({s.msg : s \in {x \in out : x.to = tracing.observer
                                               /\ x.from = tracing.sender}})]

\* stage: "sync" (the handler ran to its end), "suspended" (it reached its
\* await), "resumed" (its continuation ran to the end); value: what the awaited
\* store call resolved to (truthy or not)
Record(c, m, stage, value, out) ==
  /\ lastEvent' = [conn |-> c, msg |-> m, stage |-> stage, value |-> value]
  /\ outbox' = out
  /\ trace' = Trace(c, m, stage, out)
  /\ UNCHANGED <<tracing, clientVars>>

\* seq (history): the number of the inbound event whose handler is suspended;
\* a close takes the number of the last message event before it
Suspend(c, m, value) ==
  Append(microtasks, [conn |-> c, msg |-> m, value |-> value,
                      seq |-> IF m.type = "close" THEN events ELSE events + 1])

\* a handler may start when no continuation is pending, or while the
\* receiver is still emitting the messages of one chunk of this connection
MayStart(c) ==
  \/ microtasks = <<>>
  \/ emitting = c /\ Len(microtasks) < MaxBurst

(***************************************************************************)
(* wss.on('connection'): a new connection with its closure variables.      *)
(***************************************************************************)
Accept(c) ==
  /\ readyState[c] = "NONE"
  /\ microtasks = <<>>
  /\ readyState' = [readyState EXCEPT ![c] = "OPEN"]
  /\ userId' = [userId EXCEPT ![c] = 0]
  /\ contractId' = [contractId EXCEPT ![c] = 0]
  /\ emitting' = NoConn
  /\ Record(c, [type |-> "connection"], "sync", TRUE, {})
  /\ UNCHANGED <<clients, presenceData, contracts, microtasks, joinedAs, events>>

(***************************************************************************)
(* ws.on('message'), up to the first await.                                *)
(***************************************************************************)
\* (mutant) catch replying to every open connection
CatchToAll(c) ==
  {[to |-> x, from |-> c, msg |-> ErrorMsg] : x \in {y \in Conns : readyState[y] = "OPEN"}}

\* catch: the reply to the originating connection
Catch(c) == {[to |-> c, from |-> c, msg |-> ErrorMsg]}

OnUnparseable(c, data) ==
  /\ ~Parses(data)
  /\ Record(c, data, "sync", TRUE, Catch(c))
  /\ UNCHANGED <<userId, contractId, clients, presenceData, contracts, microtasks,
                 joinedAs>>

\* case 'join', lines 172-175: the assignments and the check that follows them
JoinUserId(c, m) == m.userId
JoinContractId(c, m) == m.contractId
JoinRejected(c, m) == ~Truthy(userId'[c]) \/ ~Truthy(contractId'[c])

OnJoin(c, m) ==
  /\ m.type = "join"
  /\ userId' = [userId EXCEPT ![c] = JoinUserId(c, m)]
  /\ contractId' = [contractId EXCEPT ![c] = JoinContractId(c, m)]
  /\ IF JoinRejected(c, m)
       THEN /\ Record(c, m, "sync", TRUE, {})
            /\ UNCHANGED <<clients, presenceData, microtasks, joinedAs>>
       ELSE /\ clients' = Register(clients, contractId'[c], c)
            /\ presenceData' = UpsertPresence(presenceData, userId'[c], contractId'[c],
                                 IF m.position = NoPos THEN Null ELSE m.position, TRUE)
            /\ joinedAs' = [joinedAs EXCEPT ![c] = @ \cup {<<userId'[c], contractId'[c]>>}]
            /\ microtasks' = Suspend(c, m, TRUE)
            /\ Record(c, m, "suspended", TRUE, {})
  /\ UNCHANGED contracts

\* (mutant) case 'cursor_move' testing userId only
OnCursorMoveUserOnly(c, m) ==
  /\ m.type = "cursor_move"
  /\ IF Truthy(userId[c])
       THEN /\ presenceData' = UpsertPresence(presenceData, userId[c], contractId[c],
                                              m.position, TRUE)
            /\ microtasks' = Suspend(c, m, TRUE)
            /\ Record(c, m, "suspended", TRUE, {})
       ELSE /\ Record(c, m, "sync", TRUE, {})
            /\ UNCHANGED <<presenceData, microtasks>>
  /\ UNCHANGED <<userId, contractId, clients, contracts, joinedAs>>

OnCursorMove(c, m) ==
  /\ m.type = "cursor_move"
  /\ IF Truthy(userId[c]) /\ Truthy(contractId[c])
       THEN /\ presenceData' = UpsertPresence(presenceData, userId[c], contractId[c],
                                              m.position, TRUE)
            /\ microtasks' = Suspend(c, m, TRUE)
            /\ Record(c, m, "suspended", TRUE, {})
       ELSE /\ Record(c, m, "sync", TRUE, {})
            /\ UNCHANGED <<presenceData, microtasks>>
  /\ UNCHANGED <<userId, contractId, clients, contracts, joinedAs>>

\* message.wordCount || 0
WordCountOrZero(m) == IF Truthy(m.wordCount) THEN m.wordCount ELSE 0

OnContentChange(c, m) ==
  /\ m.type = "content_change"
  /\ IF Truthy(contractId[c])
       THEN /\ contracts' = UpdateContract(contracts, contractId[c], m.content,
                                           WordCountOrZero(m))
            /\ microtasks' = Suspend(c, m, UpdateContractFound(contracts, contractId[c]))
            /\ Record(c, m, "suspended", UpdateContractFound(contracts, contractId[c]), {})
       ELSE /\ Record(c, m, "sync", TRUE, {})
            /\ UNCHANGED <<contracts, microtasks>>
  /\ UNCHANGED <<userId, contractId, clients, presenceData, joinedAs>>

\* (mutant) a switch with a default case replying with the error
OnUnknownReplying(c, m) ==
  /\ m \in UnknownMsgs
  /\ Record(c, m, "sync", TRUE, Catch(c))
  /\ UNCHANGED <<userId, contractId, clients, presenceData, contracts, microtasks,
                 joinedAs>>

OnUnknown(c, m) ==
  /\ m \in UnknownMsgs
  /\ Record(c, m, "sync", TRUE, {})
  /\ UNCHANGED <<userId, contractId, clients, presenceData, contracts, microtasks,
                 joinedAs>>

Receive(c, data) ==
  /\ readyState[c] = "OPEN"
  /\ MayStart(c)
  /\ events < MaxEvents
  /\ events' = events + 1
  /\ emitting' = c
  /\ UNCHANGED readyState
  /\ \/ OnUnparseable(c, data)
     \/ OnJoin(c, data)
     \/ OnCursorMove(c, data)
     \/ OnContentChange(c, data)
     \/ OnUnknown(c, data)

(***************************************************************************)
(* ws.on('close'), up to its await.                                        *)
(***************************************************************************)
CloseCleans(c) == Truthy(userId[c]) /\ Truthy(contractId[c])

Close(c) ==
  /\ readyState[c] = "OPEN"
  /\ microtasks = <<>>
  /\ readyState' = [readyState EXCEPT ![c] = "CLOSED"]
  /\ emitting' = NoConn
  /\ IF CloseCleans(c)
       THEN /\ presenceData' = RemovePresence(presenceData, userId[c], contractId[c])
            /\ microtasks' = Suspend(c, CloseEvent,
                                      RemovePresenceResult(presenceData, userId[c], contractId[c]))
            /\ Record(c, CloseEvent, "suspended",
                      RemovePresenceResult(presenceData, userId[c], contractId[c]), {})
       ELSE /\ Record(c, CloseEvent, "sync", TRUE, {})
            /\ UNCHANGED <<presenceData, microtasks>>
  /\ UNCHANGED <<userId, contractId, clients, contracts, joinedAs, events>>

(***************************************************************************)
(* The continuation of the oldest suspended handler.                       *)
(***************************************************************************)
JoinedMsg(c, m) ==
  [type |-> "presence_update", userId |-> userId[c], position |-> m.position,
   action |-> "joined"]
CursorUpdateMsg(c, m) ==
  [type |-> "cursor_update", userId |-> userId[c], position |-> m.position]
ContentUpdateMsg(c, m) ==
  [type |-> "content_update", content |-> m.content, userId |-> userId[c]]
\* (mutant) the close handler announcing a join
LeftAsJoined(c) ==
  [type |-> "presence_update", userId |-> userId[c], action |-> "joined"]

LeftMsg(c) ==
  [type |-> "presence_update", userId |-> userId[c], action |-> "left"]

ResumeMessage(c, m, value) ==
  /\ m.type # "close"
  /\ Record(c, m, "resumed", value,
       BroadcastToContract(clients, contractId[c],
         CASE m.type = "join" -> JoinedMsg(c, m)
           [] m.type = "cursor_move" -> CursorUpdateMsg(c, m)
           [] OTHER -> ContentUpdateMsg(c, m),
         c, c))
  /\ UNCHANGED clients

ResumeClose(c, m, value) ==
  /\ m.type = "close"
  /\ clients' = Unregister(clients, contractId[c], c)
  /\ Record(c, m, "resumed", value,
       BroadcastToContract(clients', contractId[c], LeftMsg(c), NoConn, c))

\* (mutant) the continuation suspended last runs first
ResumeNewest ==
  /\ microtasks # <<>>
  /\ LET t == microtasks[Len(microtasks)]
     IN  \/ ResumeMessage(t.conn, t.msg, t.value)
         \/ ResumeClose(t.conn, t.msg, t.value)
  /\ microtasks' = SubSeq(microtasks, 1, Len(microtasks) - 1)
  /\ emitting' = NoConn
  /\ UNCHANGED <<readyState, userId, contractId, presenceData, contracts, joinedAs,
                 events>>

Resume ==
  /\ microtasks # <<>>
  /\ LET t == Head(microtasks)
     IN  \/ ResumeMessage(t.conn, t.msg, t.value)
         \/ ResumeClose(t.conn, t.msg, t.value)
  /\ microtasks' = Tail(microtasks)
  /\ emitting' = NoConn
  /\ UNCHANGED <<readyState, userId, contractId, presenceData, contracts, joinedAs,
                 events>>


(***************************************************************************)
(* WebSocketManager (client).  A transport is a browser WebSocket: its     *)
(* readyState and the (userId, contractId) its handlers captured.          *)
(***************************************************************************)
ConnectArgs == {<<1, 1>>, <<1, 2>>}
AppMsgs == CursorMsgs \cup {[type |-> "content_change", content |-> "x", wordCount |-> 7]}

ClientJoinMsg(u, d) ==
  [type |-> "join", userId |-> u, contractId |-> d, position |-> "p00"]

\* (mutant) send without the readyState test
SendUnlessNull(cur, trs, message) ==
  IF cur # 0 /\ trs[cur].readyState # "CLOSED"
    THEN {[transport |-> cur, msg |-> message]}
    ELSE {}

\* send(message): what is transmitted, given the manager's ws and the transports
Send(cur, trs, message) ==
  IF cur # 0 /\ trs[cur].readyState = "OPEN"
    THEN {[transport |-> cur, msg |-> message]}
    ELSE {}

\* what the client step was and what it transmitted; the server is another process
ClientRecord(kind, t, out) ==
  /\ clientEvent' = [kind |-> kind, transport |-> t]
  /\ clientOut' = out
  /\ UNCHANGED <<serverVars, listeners, registered, viewVars>>

\* connect(userId, contractId): a new transport becomes the manager's ws
Connect(u, d) ==
  /\ transports' = Append(transports,
       [readyState |-> "CONNECTING", userId |-> u, contractId |-> d])
  /\ ws' = Len(transports) + 1

\* attemptReconnect: the guard, the counter and the timer it sets
MayReconnect == reconnectAttempts < maxReconnectAttempts

\* (mutant) attemptReconnect with the same delay for every attempt
AttemptReconnectFlat(u, d) ==
  IF MayReconnect
    THEN /\ reconnectAttempts' = reconnectAttempts + 1
         /\ timers' = Append(timers, [delay |-> reconnectDelay,
                                      userId |-> u, contractId |-> d])
         /\ autoSinceDisconnect' = (autoSinceDisconnect \/ explicit)
         /\ scheduled' = scheduled + 1
    ELSE UNCHANGED <<reconnectAttempts, timers, autoSinceDisconnect, scheduled>>

AttemptReconnect(u, d) ==
  IF MayReconnect
    THEN /\ reconnectAttempts' = reconnectAttempts + 1
         /\ timers' = Append(timers, [delay |-> reconnectDelay * reconnectAttempts',
                                      userId |-> u, contractId |-> d])
         /\ autoSinceDisconnect' = (autoSinceDisconnect \/ explicit)
         /\ scheduled' = scheduled + 1
    ELSE UNCHANGED <<reconnectAttempts, timers, autoSinceDisconnect, scheduled>>

AppConnect(u, d) ==
  /\ appCalls < MaxAppCalls
  /\ Len(transports) < MaxTransports
  /\ appCalls' = appCalls + 1
  /\ Connect(u, d)
  /\ explicit' = FALSE
  /\ autoSinceDisconnect' = FALSE
  /\ lastCursor' = NoPos
  /\ ClientRecord("connect", ws', {})
  /\ UNCHANGED <<reconnectAttempts, timers, retries, scheduled>>

\* ws.close() of the browser WebSocket
CloseTransport(trs, t) ==
  IF trs[t].readyState \in {"CONNECTING", "OPEN"}
    THEN [trs EXCEPT ![t].readyState = "CLOSING"]
    ELSE trs

AppDisconnect ==
  /\ transports # <<>>
  /\ ~explicit
  /\ IF ws # 0
       THEN /\ transports' = CloseTransport(transports, ws)
            /\ ws' = 0
       ELSE UNCHANGED <<transports, ws>>
  /\ explicit' = TRUE
  /\ autoSinceDisconnect' = FALSE
  /\ ClientRecord("disconnect", ws, {})
  /\ UNCHANGED <<reconnectAttempts, timers, retries, appCalls, lastCursor, scheduled>>

AppSend(message) ==
  /\ transports # <<>>
  /\ clientEvent' = [kind |-> "send", transport |-> ws, msg |-> message]
  /\ clientOut' = Send(ws, transports, message)
  /\ UNCHANGED <<serverVars, listeners, registered, viewVars>>
  /\ lastCursor' = IF message.type = "cursor_move" /\ clientOut' # {}
                     THEN message.position ELSE lastCursor
  /\ UNCHANGED <<ws, reconnectAttempts, transports, timers, explicit,
                 autoSinceDisconnect, retries, appCalls, scheduled>>

\* the open event of transport t and its onopen handler
TransportOpen(t) ==
  /\ transports[t].readyState = "CONNECTING"
  /\ transports' = [transports EXCEPT ![t].readyState = "OPEN"]
  /\ reconnectAttempts' = 0
  /\ retries' = 0
  /\ scheduled' = 0
  /\ ClientRecord("open", t,
       Send(ws, transports', ClientJoinMsg(transports[t].userId, transports[t].contractId)))
  /\ UNCHANGED <<ws, timers, explicit, autoSinceDisconnect, appCalls, lastCursor>>

\* a closed transport: its handlers have run for the last time, so what they
\* captured is kept no longer
ClosedTransport == [readyState |-> "CLOSED", userId |-> 0, contractId |-> 0]

\* the close event of transport t (failed, dropped or closed) and its onclose
TransportClose(t) ==
  /\ transports[t].readyState # "CLOSED"
  /\ transports' = [transports EXCEPT ![t] = ClosedTransport]
  /\ AttemptReconnect(transports[t].userId, transports[t].contractId)
  /\ ClientRecord("close", t, {})
  /\ UNCHANGED <<ws, explicit, retries, appCalls, lastCursor>>

\* a timer set later with a shorter delay may overtake an older one; one set
\* later with the same or a longer delay may not
MayFire(i) == \A j \in 1..(i - 1) : timers[j].delay > timers[i].delay

RemoveAt(seq, i) == SubSeq(seq, 1, i - 1) \o SubSeq(seq, i + 1, Len(seq))

TimerFire(i) ==
  /\ MayFire(i)
  /\ Len(transports) < MaxTransports
  /\ timers' = RemoveAt(timers, i)
  /\ Connect(timers[i].userId, timers[i].contractId)
  /\ retries' = retries + 1
  /\ autoSinceDisconnect' = (autoSinceDisconnect \/ explicit)
  /\ ClientRecord("timer", ws', {})
  /\ UNCHANGED <<reconnectAttempts, explicit, appCalls, lastCursor, scheduled>>

(***************************************************************************)
(* WebSocketManager's publish/subscribe: on, off, emit and onmessage.      *)
(***************************************************************************)
EventKinds == {"presence_update", "cursor_update"}
Callbacks == {"f", "g"}
Inbound == [type : EventKinds] \cup {Unparseable}

On(map, event, callback) ==
  [k \in DOMAIN map \cup {event} |->
     IF k = event THEN (IF event \in DOMAIN map THEN map[event] ELSE {}) \cup {callback}
                  ELSE map[k]]

\* (mutant) off dropping the callback from every event kind
OffEveryKind(map, event, callback) ==
  IF event \in DOMAIN map THEN [k \in DOMAIN map |-> map[k] \ {callback}] ELSE map

Off(map, event, callback) ==
  IF event \in DOMAIN map THEN [map EXCEPT ![event] = @ \ {callback}] ELSE map

\* emit: the callbacks it invokes
Emit(map, event) == IF event \in DOMAIN map THEN map[event] ELSE {}

ListenerCallUnchanged ==
  UNCHANGED <<serverVars, ws, reconnectAttempts, transports, timers, explicit,
              autoSinceDisconnect, retries, appCalls, lastCursor, scheduled,
              viewVars>>

AppOn(event, callback) ==
  /\ listeners' = On(listeners, event, callback)
  /\ registered' = registered \cup {<<event, callback>>}
  /\ clientEvent' = [kind |-> "on", transport |-> 0]
  /\ clientOut' = {}
  /\ ListenerCallUnchanged

AppOff(event, callback) ==
  /\ listeners' = Off(listeners, event, callback)
  /\ registered' = registered \ {<<event, callback>>}
  /\ clientEvent' = [kind |-> "off", transport |-> 0]
  /\ clientOut' = {}
  /\ ListenerCallUnchanged

\* the message event of transport t and its onmessage handler
TransportMessage(t, data) ==
  /\ transports[t].readyState = "OPEN"
  /\ clientEvent' = [kind |-> "message", transport |-> t, data |-> data,
                     invoked |-> IF Parses(data) THEN Emit(listeners, data.type) ELSE {}]
  /\ clientOut' = {}
  /\ UNCHANGED <<listeners, registered>>
  /\ ListenerCallUnchanged

(***************************************************************************)
(* The presence view of a client: the two lists usePresence keeps from the *)
(* presence_update and cursor_update messages it receives.  An entry of    *)
(* activeUsers is [id, position], an entry of cursors [userId, position];  *)
(* a message without a position has NoPos.                                 *)
(***************************************************************************)
Absent == "absent"
ViewPositions == Positions \cup {NoPos}
PresenceUpdates ==
  [type : {"presence_update"}, action : {"joined", "left", "updated"},
   userId : Users, position : ViewPositions]
CursorUpdates == [type : {"cursor_update"}, userId : Users, position : ViewPositions]

\* prev.filter(user => user.id !== u)
OtherUsers(prev, u) ==
  LET Keep(e) == e.id # u IN SelectSeq(prev, Keep)

\* prev.filter(cursor => cursor.userId !== u)
OtherCursors(prev, u) ==
  LET Keep(e) == e.userId # u IN SelectSeq(prev, Keep)

\* a joined that adds its entry without dropping the user's earlier one
JoinedUsersAppending(prev, data) ==
  Append(prev, [id |-> data.userId, position |-> data.position])

\* setActiveUsers of a joined: the user's earlier entry goes, the new one is last
JoinedUsers(prev, data) ==
  Append(OtherUsers(prev, data.userId),
         [id |-> data.userId, position |-> data.position])

\* setCursors of a cursor_update
UpdatedCursors(prev, data) ==
  Append(OtherCursors(prev, data.userId),
         [userId |-> data.userId, position |-> data.position])

\* the handler of presence_update
OnPresenceUpdate(data) ==
  /\ data.type = "presence_update"
  /\ viewEvent' = data
  /\ IF data.action = "joined"
       THEN /\ activeUsers' = JoinedUsers(activeUsers, data)
            /\ cursors' = cursors
            /\ seenJoined' = [seenJoined EXCEPT ![data.userId] = data.position]
            /\ seenCursor' = seenCursor
       ELSE IF data.action = "left"
         THEN /\ activeUsers' = OtherUsers(activeUsers, data.userId)
              /\ cursors' = OtherCursors(cursors, data.userId)
              /\ seenJoined' = [seenJoined EXCEPT ![data.userId] = Absent]
              /\ seenCursor' = [seenCursor EXCEPT ![data.userId] = Absent]
         ELSE UNCHANGED <<activeUsers, cursors, seenJoined, seenCursor>>
  /\ UNCHANGED <<serverVars, ws, reconnectAttempts, transports, timers, clientOut,
                 clientEvent, explicit, autoSinceDisconnect, retries, appCalls,
                 lastCursor, scheduled, listeners, registered>>

\* the handler of cursor_update
OnCursorUpdate(data) ==
  /\ data.type = "cursor_update"
  /\ viewEvent' = data
  /\ cursors' = UpdatedCursors(cursors, data)
  /\ seenCursor' = [seenCursor EXCEPT ![data.userId] = data.position]
  /\ UNCHANGED <<activeUsers, seenJoined>>
  /\ UNCHANGED <<serverVars, ws, reconnectAttempts, transports, timers, clientOut,
                 clientEvent, explicit, autoSinceDisconnect, retries, appCalls,
                 lastCursor, scheduled, listeners, registered>>

ViewInit ==
  /\ activeUsers = <<>>
  /\ cursors = <<>>
  /\ viewEvent = [type |-> "none"]
  /\ seenJoined = [u \in Users |-> Absent]
  /\ seenCursor = [u \in Users |-> Absent]

ClientInit ==
  /\ ws = 0
  /\ reconnectAttempts = 0
  /\ transports = <<>>
  /\ timers = <<>>
  /\ clientOut = {}
  /\ clientEvent = [kind |-> "none", transport |-> 0]
  /\ explicit = FALSE
  /\ autoSinceDisconnect = FALSE
  /\ retries = 0
  /\ appCalls = 0
  /\ lastCursor = NoPos
  /\ scheduled = 0
  /\ listeners = [k \in {} |-> {}]
  /\ registered = {}
  /\ ViewInit

(***************************************************************************)
(* The server.                                                             *)
(***************************************************************************)
SampleContract == [content |-> "sample", wordCount |-> 0]

ServerInit ==
  /\ readyState = [c \in Conns |-> "NONE"]
  /\ userId = [c \in Conns |-> 0]
  /\ contractId = [c \in Conns |-> 0]
  /\ clients = <<>>
  /\ presenceData = <<>>
  /\ contracts = [d \in {SampleContractId} |-> SampleContract]
  /\ microtasks = <<>>
  /\ emitting = NoConn
  /\ outbox = {}
  /\ lastEvent = NoEvent
  /\ joinedAs = [c \in Conns |-> {}]
  /\ events = 0
  /\ trace = EmptyTrace

Init == ServerInit /\ tracing = NoTrace /\ ClientInit

Next ==
  \/ \E c \in Conns : Accept(c)
  \/ \E c \in Conns : \E data \in Frames : Receive(c, data)
  \/ \E c \in Conns : Close(c)
  \/ Resume

Spec == Init /\ [][Next]_vars

\* the same server, with the history of events and sends recorded
TraceInit ==
  /\ ServerInit
  /\ tracing = [sender |-> "a", observer |-> "b"]
  /\ ClientInit

TraceSpec == TraceInit /\ [][Next]_vars

ClientNext ==
  \/ \E a \in ConnectArgs : AppConnect(a[1], a[2])
  \/ AppDisconnect
  \/ \E m \in AppMsgs : AppSend(m)
  \/ \E t \in 1..Len(transports) : TransportOpen(t)
  \/ \E t \in 1..Len(transports) : TransportClose(t)
  \/ \E i \in 1..Len(timers) : TimerFire(i)

ClientSpec == Init /\ [][ClientNext]_vars

\* the manager with its listeners, driven as the useWebSocket effect drives
\* it: connect(userId, contractId) when mounted, disconnect() when unmounted
EffectConnect ==
  /\ ws = 0
  /\ Len(transports) < MaxListenerTransports
  /\ AppConnect(1, 1)

\* a reconnect timer firing, while the transports made are within the bound
ListenedTimerFire(i) ==
  /\ Len(transports) < MaxListenerTransports
  /\ TimerFire(i)

\* the presence view, handling the messages its connection delivers
ViewNext ==
  \/ \E data \in PresenceUpdates : OnPresenceUpdate(data)
  \/ \E data \in CursorUpdates : OnCursorUpdate(data)

ViewSpec == Init /\ [][ViewNext]_vars

ListenerNext ==
  \/ EffectConnect
  \/ AppDisconnect
  \/ \E t \in 1..Len(transports) : TransportOpen(t)
  \/ \E t \in 1..Len(transports) : TransportClose(t)
  \/ \E i \in 1..Len(timers) : ListenedTimerFire(i)
  \/ \E k \in EventKinds, cb \in Callbacks : AppOn(k, cb)
  \/ \E k \in EventKinds, cb \in Callbacks : AppOff(k, cb)
  \/ \E t \in 1..Len(transports) : \E data \in Inbound : TransportMessage(t, data)

ListenerSpec == Init /\ [][ListenerNext]_vars

(***************************************************************************)
(* MemStorage's presence methods on their own, called with any arguments   *)
(* in any order.                                                           *)
(***************************************************************************)
StorePositions == CursorPositions \cup {Null}

StoreCallUnchanged ==
  UNCHANGED <<readyState, userId, contractId, clients, contracts, microtasks,
              emitting, joinedAs, events>>

StoreUpsert(u, d, pos, active) ==
  /\ presenceData' = UpsertPresence(presenceData, u, d, pos, active)
  /\ Record(NoConn, [type |-> "upsertPresence", userId |-> u, contractId |-> d,
                     position |-> pos, isActive |-> active], "sync", TRUE, {})
  /\ StoreCallUnchanged

StoreRemove(u, d) ==
  /\ presenceData' = RemovePresence(presenceData, u, d)
  /\ Record(NoConn, [type |-> "removePresence", userId |-> u, contractId |-> d],
            "sync", RemovePresenceResult(presenceData, u, d), {})
  /\ StoreCallUnchanged

StoreNext ==
  \/ \E u \in Users, d \in Docs, pos \in StorePositions, active \in BOOLEAN :
       StoreUpsert(u, d, pos, active)
  \/ \E u \in Users, d \in Docs : StoreRemove(u, d)

StoreSpec == Init /\ [][StoreNext]_vars

(***************************************************************************)
(* Properties.                                                             *)
(***************************************************************************)
Quiescent == microtasks = <<>>
Subscriptions(c) == {d \in DOMAIN clients : c \in clients[d]}
Pending(c) == Cardinality({i \in 1..Len(microtasks) : microtasks[i].conn = c})
IsActive(u, d) ==
  /\ PresenceKey(u, d) \in DOMAIN presenceData
  /\ presenceData[PresenceKey(u, d)].isActive
Handled == lastEvent.stage \in {"sync", "resumed"}
Started == events' = events + 1

\* what the script's k-th event after the connection must deliver to the observer
Expected(sent, k) ==
  LET m == sent[k + 1]
      u == sent[2].userId
  IN  CASE m.type = "join" ->
             [type |-> "presence_update", userId |-> u, position |-> m.position,
              action |-> "joined"]
        [] m.type = "cursor_move" ->
             [type |-> "cursor_update", userId |-> u, position |-> m.position]
        [] OTHER ->
             [type |-> "presence_update", userId |-> u, action |-> "left"]

\* C1: while connection A performs join, cursor_move ..., close on a document
\* the observer B is an open subscriber of, B has received from A exactly one
\* message per event of A whose handler has finished, in the order of the
\* events: the joined, then the cursor_updates, then the left.
C1_JoinCursorLeftInOrder ==
  (tracing # NoTrace /\ trace # OffTrace /\ Len(trace.sent) >= 1) =>
    LET done == Len(trace.sent) - 1 - Pending(tracing.sender)
    IN  trace.inbox = [k \in 1..done |-> Expected(trace.sent, k)]

C1_Witness ==
  /\ tracing # NoTrace /\ trace # OffTrace
  /\ Quiescent
  /\ Len(trace.sent) = 4
  /\ trace.sent[3].type = "cursor_move"
  /\ trace.sent[4].type = "close"
  /\ Len(trace.inbox) = 3

\* C2: no joined, cursor_update or content_update is sent to the connection
\* whose event produced it.
C2_BroadcastExclusion ==
  \A s \in outbox :
    (\/ s.msg.type \in {"cursor_update", "content_update"}
     \/ s.msg.type = "presence_update" /\ s.msg.action = "joined")
    => s.to # lastEvent.conn

C2_Witness ==
  /\ lastEvent.stage = "resumed"
  /\ lastEvent.msg.type = "cursor_move"
  /\ Truthy(contractId[lastEvent.conn])
  /\ contractId[lastEvent.conn] \in DOMAIN clients
  /\ clients[contractId[lastEvent.conn]] = Conns
  /\ \A c \in Conns : readyState[c] = "OPEN"
  /\ outbox # {}

\* C3: after an explicit disconnect() no reconnect is scheduled and no
\* transport is created by a reconnect timer until connect() is called again.
C3_NoReconnectAfterDisconnect == explicit => ~autoSinceDisconnect

\* C4: since the last successful open at most maxReconnectAttempts reconnect
\* timers have fired, and when the manager is at rest (every transport closed,
\* no timer pending) exactly maxReconnectAttempts have.
AtRest ==
  /\ transports # <<>>
  /\ timers = <<>>
  /\ \A t \in 1..Len(transports) : transports[t].readyState = "CLOSED"

C4_ReconnectBudget ==
  /\ retries <= maxReconnectAttempts
  /\ AtRest => retries = maxReconnectAttempts

\* C5: when no handler is suspended, a connection that rejoined as (u, d)
\* after an old connection of (u, d) was dropped finds (u, d) active in
\* getPresenceByContract(d), with the rejoin's position right after the rejoin.
C5_RejoinRestoresPresence ==
  \A old \in Conns, new \in Conns :
    \A u \in Users, d \in Docs :
      (/\ Quiescent
       /\ old # new
       /\ readyState[old] = "CLOSED"
       /\ <<u, d>> \in joinedAs[old]
       /\ readyState[new] = "OPEN"
       /\ userId[new] = u
       /\ contractId[new] = d)
      => /\ \E r \in GetPresenceByContract(presenceData, d) : r.userId = u
         /\ (lastEvent.conn = new /\ lastEvent.msg.type = "join")
              => \E r \in GetPresenceByContract(presenceData, d) :
                   /\ r.userId = u
                   /\ r.position = IF lastEvent.msg.position = NoPos
                                     THEN Null ELSE lastEvent.msg.position

\* C6: right after the close of a connection that joined successfully has been
\* handled, the connection is in no subscription set, every (user, document)
\* it joined as is inactive, and the open subscribers of the documents it
\* joined were sent a left.
C6_CloseCleanup ==
  (lastEvent.msg = CloseEvent /\ Handled /\ joinedAs[lastEvent.conn] # {}) =>
    LET c == lastEvent.conn
    IN  /\ Subscriptions(c) = {}
        /\ \A p \in joinedAs[c] : ~IsActive(p[1], p[2])
        /\ \A p \in joinedAs[c] :
             p[2] \in DOMAIN clients =>
               \A x \in clients[p[2]] :
                 readyState[x] = "OPEN" =>
                   \E s \in outbox : /\ s.to = x
                                     /\ s.msg.type = "presence_update"
                                     /\ s.msg.action = "left"

\* C7: every connection is a member of at most one subscription set.
C7_AtMostOneSubscription ==
  \A c \in Conns : Cardinality(Subscriptions(c)) <= 1

\* C8: when the store did not find the document of a content_change, the
\* originating connection alone is sent an error and no content_update is sent.
C8_PersistFailureReported ==
  (lastEvent.msg.type = "content_change" /\ lastEvent.stage = "resumed"
   /\ ~lastEvent.value) =>
    /\ \A s \in outbox : s.msg.type # "content_update"
    /\ \E s \in outbox : s.to = lastEvent.conn /\ s.msg.type = "error"
    /\ \A s \in outbox : s.to = lastEvent.conn

\* C9: handling an unparseable message sends one error to the originating
\* connection and nothing else, changes no closure variable, subscription set,
\* presence record or suspended handler, and leaves the connection open.
C9_UnparseableIsolated ==
  [][(Started /\ lastEvent'.msg = Unparseable) =>
       /\ Cardinality(outbox') = 1
       /\ \A s \in outbox' : s.to = lastEvent'.conn /\ s.msg.type = "error"
       /\ UNCHANGED <<userId, contractId, clients, presenceData, contracts,
                      microtasks, readyState>>
       /\ readyState'[lastEvent'.conn] = "OPEN"]_vars

C9_Witness ==
  /\ lastEvent.msg = Unparseable
  /\ \E d \in DOMAIN clients : clients[d] = Conns
  /\ Truthy(userId[lastEvent.conn])
  /\ \A c \in Conns : readyState[c] = "OPEN"
  /\ Cardinality(outbox) = 1

\* C10: handling a join that lacks userId or contractId sends nothing and
\* changes no subscription set, no presence record and neither closure
\* variable of the connection.
C10_RejectedJoinNoEffect ==
  [][(/\ Started
      /\ lastEvent'.msg.type = "join"
      /\ (~Truthy(lastEvent'.msg.userId) \/ ~Truthy(lastEvent'.msg.contractId))) =>
       /\ outbox' = {}
       /\ UNCHANGED <<clients, presenceData>>
       /\ userId'[lastEvent'.conn] = userId[lastEvent'.conn]
       /\ contractId'[lastEvent'.conn] = contractId[lastEvent'.conn]]_vars

\* C11: a content_change handled for a stored document leaves the store with
\* that event's content and wordCount whatever the document held before, and
\* no other step changes a stored document: after E1 then E2 the document is E2's.
C11_LastWriteWins ==
  [][IF Started /\ lastEvent'.msg.type = "content_change"
        THEN LET d == contractId[lastEvent'.conn]
                 m == lastEvent'.msg
             IN  d \in DOMAIN contracts =>
                   /\ contracts'[d] = [content |-> m.content, wordCount |-> m.wordCount]
                   /\ \A o \in DOMAIN contracts \ {d} : contracts'[o] = contracts[o]
        ELSE UNCHANGED contracts]_vars

\* E1 then E2 of one chunk, both suspended: the store holds E2's content
C11_Witness ==
  /\ Len(microtasks) = 2
  /\ microtasks[1].msg.type = "content_change"
  /\ microtasks[2].msg.type = "content_change"
  /\ microtasks[1].msg.content # microtasks[2].msg.content
  /\ contractId[microtasks[2].conn] \in DOMAIN contracts
  /\ contracts[contractId[microtasks[2].conn]].content = microtasks[2].msg.content
  /\ contracts[contractId[microtasks[2].conn]].wordCount = microtasks[2].msg.wordCount

\* C12: when the join of a connection to document d has been handled, the
\* joiner has been sent, for every other open connection already joined to d,
\* a joined carrying that connection's userId and stored position.
C12_JoinerLearnsMembers ==
  (lastEvent.msg.type = "join" /\ lastEvent.stage = "resumed") =>
    LET new == lastEvent.conn
        d   == contractId[new]
    IN  \A old \in Conns \ {new} :
          (/\ readyState[old] = "OPEN"
           /\ d \in DOMAIN clients
           /\ old \in clients[d]
           /\ contractId[old] = d
           /\ <<userId[old], d>> \in joinedAs[old]
           /\ userId[old] # userId[new])
          => \E s \in outbox :
               /\ s.to = new
               /\ s.msg.type = "presence_update"
               /\ s.msg.action = "joined"
               /\ s.msg.userId = userId[old]
               /\ s.msg.position = presenceData[PresenceKey(userId[old], d)].position

\* C13: whenever a joined is sent to the subscribers of document d, the joining
\* connection is registered under d and the presence record of the announced
\* user and d is active.
C13_JoinedAfterCompleteJoin ==
  \A s \in outbox :
    (s.msg.type = "presence_update" /\ s.msg.action = "joined") =>
      LET c == s.from
          d == contractId[c]
      IN  /\ d \in DOMAIN clients
          /\ c \in clients[d]
          /\ IsActive(s.msg.userId, d)

\* C14: at most one transport created by the manager is connecting or open
\* (every transport keeps its handlers until it has closed).
Live == {t \in 1..Len(transports) : transports[t].readyState \in {"CONNECTING", "OPEN"}}

C14_SingleConnection == Cardinality(Live) <= 1

\* C15: the open of the manager's current transport transmits on it a join
\* carrying the userId and contractId given to connect() and the position of
\* the last cursor_move transmitted since connect() was called ({0, 0} if none).
C15_JoinCarriesLastPosition ==
  (clientEvent.kind = "open" /\ ws = clientEvent.transport) =>
    \E s \in clientOut :
      /\ s.transport = clientEvent.transport
      /\ s.msg.type = "join"
      /\ s.msg.userId = transports[clientEvent.transport].userId
      /\ s.msg.contractId = transports[clientEvent.transport].contractId
      /\ s.msg.position = IF lastCursor = NoPos THEN "p00" ELSE lastCursor

\* C16: after every storage call each record is stored under the key of its
\* own (userId, contractId), so there is one record per pair at most; an
\* upsertPresence for a pair that has a record keeps the record's id, with
\* isActive true it makes getPresenceByContract return exactly one record of
\* the pair, and repeating the call just made changes nothing.
C16_UpsertIdempotent ==
  [][/\ \A k \in DOMAIN presenceData' :
          k = PresenceKey(presenceData'[k].userId, presenceData'[k].contractId)
     /\ lastEvent'.msg.type = "upsertPresence" =>
          LET m   == lastEvent'.msg
              key == PresenceKey(m.userId, m.contractId)
          IN  /\ key \in DOMAIN presenceData =>
                   presenceData'[key].id = presenceData[key].id
              /\ m.isActive =>
                   Cardinality({r \in GetPresenceByContract(presenceData', m.contractId) :
                                  r.userId = m.userId}) = 1
              /\ lastEvent.msg = m => presenceData' = presenceData]_vars

\* an upsert of a pair whose record was made before another pair's record
C16_Witness ==
  /\ lastEvent.msg.type = "upsertPresence"
  /\ lastEvent.msg.isActive
  /\ Cardinality(DOMAIN presenceData) >= 2
  /\ presenceData[PresenceKey(lastEvent.msg.userId, lastEvent.msg.contractId)].id = 1
  /\ Cardinality(GetPresenceByContract(presenceData, lastEvent.msg.contractId)) = 2

\* C17: removePresence for a pair that has no record returns false and leaves
\* the presence store as it was; for a pair that has a record it returns true.
C17_RemoveMissingReturnsFalse ==
  [][lastEvent'.msg.type = "removePresence" =>
       LET key == PresenceKey(lastEvent'.msg.userId, lastEvent'.msg.contractId)
       IN  IF key \in DOMAIN presenceData
             THEN lastEvent'.value = TRUE
             ELSE lastEvent'.value = FALSE /\ presenceData' = presenceData]_vars

C17_Witness ==
  /\ lastEvent.msg.type = "removePresence"
  /\ lastEvent.value = FALSE
  /\ PresenceKey(lastEvent.msg.userId, lastEvent.msg.contractId) \notin DOMAIN presenceData
  /\ \E k \in DOMAIN presenceData : presenceData[k].isActive

\* C18: removePresence of a pair that has a record changes that record's
\* isActive to false and nothing else in the store, after which
\* getPresenceByContract no longer returns a record of the pair; an
\* upsertPresence with isActive true of a pair that has a record makes it
\* active under the id it had; and getPresenceByContract(d) always returns
\* exactly the records of d whose isActive is true.
C18_SoftDelete ==
  [][LET m   == lastEvent'.msg
         key == PresenceKey(m.userId, m.contractId)
     IN  /\ (m.type = "removePresence" /\ key \in DOMAIN presenceData) =>
               /\ DOMAIN presenceData' = DOMAIN presenceData
               /\ \A k \in DOMAIN presenceData \ {key} : presenceData'[k] = presenceData[k]
               /\ presenceData'[key].isActive = FALSE
               /\ presenceData'[key].userId = presenceData[key].userId
               /\ presenceData'[key].contractId = presenceData[key].contractId
               /\ presenceData'[key].id = presenceData[key].id
               /\ presenceData'[key].position = presenceData[key].position
               /\ \A r \in GetPresenceByContract(presenceData', m.contractId) :
                    r.userId # m.userId
         /\ (m.type = "upsertPresence" /\ m.isActive /\ key \in DOMAIN presenceData) =>
               /\ presenceData'[key].isActive = TRUE
               /\ presenceData'[key].id = presenceData[key].id
               /\ presenceData'[key] \in GetPresenceByContract(presenceData', m.contractId)
         /\ \A d \in Docs :
               /\ \A r \in GetPresenceByContract(presenceData', d) :
                    /\ r.contractId = d /\ r.isActive = TRUE
                    /\ \E k \in DOMAIN presenceData' : presenceData'[k] = r
               /\ \A k \in DOMAIN presenceData' :
                    (presenceData'[k].contractId = d /\ presenceData'[k].isActive = TRUE)
                      => presenceData'[k] \in GetPresenceByContract(presenceData', d)]_vars

\* a removed record kept with its position beside an active one of the contract
C18_Witness ==
  /\ lastEvent.msg.type = "removePresence"
  /\ lastEvent.value = TRUE
  /\ LET key == PresenceKey(lastEvent.msg.userId, lastEvent.msg.contractId)
     IN  /\ key \in DOMAIN presenceData
         /\ presenceData[key].isActive = FALSE
         /\ presenceData[key].position = "p25"
         /\ Cardinality(GetPresenceByContract(presenceData, lastEvent.msg.contractId)) = 1

\* C19: the k-th reconnect scheduled since the last transport open (or since
\* the manager was made), k = 1..5, gets the delay k * 1000 ms; the counter
\* reconnectAttempts is always within 0..maxReconnectAttempts; and it is 0
\* right after every transport open.
C19_ReconnectSchedule ==
  [][/\ reconnectAttempts' \in 0..maxReconnectAttempts
     /\ clientEvent'.kind = "open" => reconnectAttempts' = 0
     /\ Len(timers') > Len(timers) =>
          /\ scheduled' \in 1..5
          /\ timers'[Len(timers')].delay = scheduled' * 1000]_vars

\* the fifth reconnect in a row has just been scheduled
C19_Witness ==
  /\ clientEvent.kind = "close"
  /\ scheduled = 5
  /\ timers # <<>>
  /\ timers[Len(timers)].delay = 5000

\* C20: connect(), disconnect(), the open and close of a transport and the
\* reconnect timer leave the listeners map as it was, and a message of kind k
\* received on any open transport invokes exactly the callbacks registered
\* for k by an on() that no off() of the same kind and callback has undone.
C20_ListenersSurviveReconnect ==
  [][/\ clientEvent'.kind \in {"connect", "disconnect", "open", "close", "timer"}
          => listeners' = listeners
     /\ (clientEvent'.kind = "message" /\ Parses(clientEvent'.data)) =>
          clientEvent'.invoked =
            {cb \in Callbacks : <<clientEvent'.data.type, cb>> \in registered}]_vars

\* a message on a transport made by a reconnect timer reaches a callback,
\* after an off() of the callback for another kind
C20_Witness ==
  /\ clientEvent.kind = "message"
  /\ appCalls = 1
  /\ clientEvent.transport >= 2
  /\ clientEvent.invoked # {}
  /\ \E k \in DOMAIN listeners : listeners[k] = {}

\* C21: a cursor_move from a connection that has made no successful join
\* changes neither the presence store nor the subscription sets, sends
\* nothing (no error either) and leaves no continuation that could send later.
C21_CursorMoveBeforeJoin ==
  [][(/\ Started
      /\ lastEvent'.msg.type = "cursor_move"
      /\ joinedAs[lastEvent'.conn] = {}) =>
       /\ UNCHANGED <<presenceData, clients, microtasks>>
       /\ outbox' = {}]_vars

\* the cursor_move follows a rejected join that left a userId behind, while
\* another connection is subscribed
C21_Witness ==
  /\ lastEvent.msg.type = "cursor_move"
  /\ lastEvent.stage = "sync"
  /\ joinedAs[lastEvent.conn] = {}
  /\ Truthy(userId[lastEvent.conn])
  /\ clients # <<>>
  /\ \E k \in DOMAIN presenceData : presenceData[k].isActive

\* C22: the suspended handlers are queued in the order their events started,
\* and a notification is only ever sent by the continuation of the handler
\* that started first among them; so of two events started E1 then E2 every
\* subscriber is sent E1's notification before E2's.
C22_NotificationsInStartOrder ==
  [][/\ \A i \in 1..Len(microtasks'), j \in 1..Len(microtasks') :
          i < j => microtasks'[i].seq < microtasks'[j].seq
     /\ (\E s \in outbox' : s.msg.type # "error") =>
          /\ microtasks # <<>>
          /\ microtasks' = Tail(microtasks)
          /\ lastEvent'.conn = Head(microtasks).conn
          /\ lastEvent'.msg = Head(microtasks).msg
          /\ \A s \in outbox' : s.from = Head(microtasks).conn]_vars

\* a join and a cursor_move of one chunk: the joined has just been sent to a
\* subscriber while the cursor_move's continuation still waits
C22_Witness ==
  /\ lastEvent.stage = "resumed"
  /\ lastEvent.msg.type = "join"
  /\ outbox # {}
  /\ Len(microtasks) = 1
  /\ microtasks[1].conn = lastEvent.conn
  /\ microtasks[1].msg.type = "cursor_move"

\* C23: no key of the clients map is bound to an empty set.
C23_NoEmptySubscriptionSet == \A d \in DOMAIN clients : clients[d] # {}

\* a close has just removed the last member of a set, and the set with it,
\* while another document's set remains
C23_Witness ==
  /\ lastEvent.msg = CloseEvent
  /\ lastEvent.stage = "resumed"
  /\ \E p \in joinedAs[lastEvent.conn] : p[2] \notin DOMAIN clients
  /\ clients # <<>>

\* C24: a valid join from a connection that already is a member of the
\* document's set leaves the clients map as it was, and neither the handler
\* nor its continuation sends an error.
C24_RegistrationIdempotent ==
  [][/\ (/\ Started
          /\ lastEvent'.msg.type = "join"
          /\ Truthy(lastEvent'.msg.userId)
          /\ lastEvent'.msg.contractId \in DOMAIN clients
          /\ lastEvent'.conn \in clients[lastEvent'.msg.contractId]) =>
            /\ clients' = clients
            /\ outbox' = {}
     /\ lastEvent'.msg.type = "join" =>
            \A s \in outbox' : s.msg.type # "error"]_vars

\* a connection's second join to a document it shares with the other one
C24_Witness ==
  /\ lastEvent.msg.type = "join"
  /\ lastEvent.stage = "suspended"
  /\ LET c == lastEvent.conn
         d == lastEvent.msg.contractId
     IN  /\ joinedAs[c] = {<<1, d>>, <<2, d>>}
         /\ clients[d] = Conns

C26_PresenceFollowsConnections ==
  Quiescent =>
    \A c \in Conns :
      (/\ readyState[c] = "OPEN"
       /\ Truthy(userId[c]) /\ Truthy(contractId[c])
       /\ <<userId[c], contractId[c]>> \in joinedAs[c])
      => \E r \in GetPresenceByContract(presenceData, contractId[c]) :
           r.userId = userId[c]

\* C27: when no handler is suspended, every active presence record (u, d)
\* belongs to at least one open connection that joined as user u on document
\* d; with every such connection closed, (u, d) is inactive.
C27_NoOrphanPresence ==
  Quiescent =>
    \A k \in DOMAIN presenceData :
      presenceData[k].isActive =>
        \E c \in Conns :
          /\ readyState[c] = "OPEN"
          /\ <<presenceData[k].userId, presenceData[k].contractId>> \in joinedAs[c]

\* C28: a content_change from a connection that has made no successful join
\* leaves the stored documents as they were, sends nothing and leaves no
\* continuation that would broadcast a content_update.
C28_OnlyJoinedWrite ==
  [][(/\ Started
      /\ lastEvent'.msg.type = "content_change"
      /\ joinedAs[lastEvent'.conn] = {}) =>
       /\ UNCHANGED <<contracts, microtasks>>
       /\ outbox' = {}]_vars

\* C29: send(message) transmits the message, on the manager's current
\* transport, if that transport exists and is open; otherwise it transmits
\* nothing and changes nothing of the manager; and no other step of the
\* manager transmits anything but the join of an onopen, so a dropped message
\* is not transmitted later.
C29_SendFireOrDrop ==
  [][/\ clientEvent'.kind = "send" =>
          /\ UNCHANGED <<ws, reconnectAttempts, transports, timers, listeners>>
          /\ IF ws # 0 /\ transports[ws].readyState = "OPEN"
               THEN clientOut' = {[transport |-> ws, msg |-> clientEvent'.msg]}
               ELSE clientOut' = {}
     /\ clientEvent'.kind # "send" =>
          \A s \in clientOut' : clientEvent'.kind = "open" /\ s.msg.type = "join"]_vars

\* a cursor_move dropped while the transport made by a reconnect is connecting
C29_Witness ==
  /\ clientEvent.kind = "send"
  /\ clientEvent.msg.type = "cursor_move"
  /\ clientOut = {}
  /\ appCalls = 1
  /\ ws >= 2
  /\ transports[ws].readyState = "CONNECTING"

\* the positions of the entries a list holds for one user
UserEntries(u) == [i \in {j \in DOMAIN activeUsers : activeUsers[j].id = u} |->
                     activeUsers[i].position]
CursorEntries(u) == [i \in {j \in DOMAIN cursors : cursors[j].userId = u} |->
                       cursors[i].position]

\* C30: activeUsers and cursors each hold at most one entry per user; a
\* user's entry of activeUsers has the position of that user's latest joined,
\* its entry of cursors the position of its latest cursor_update; and right
\* after a left for a user neither list has an entry for that user.
C30_PresenceView ==
  /\ \A u \in Users :
       /\ Cardinality(DOMAIN UserEntries(u)) <= 1
       /\ Cardinality(DOMAIN CursorEntries(u)) <= 1
       /\ IF seenJoined[u] = Absent
            THEN DOMAIN UserEntries(u) = {}
            ELSE \E i \in DOMAIN UserEntries(u) : UserEntries(u)[i] = seenJoined[u]
       /\ IF seenCursor[u] = Absent
            THEN DOMAIN CursorEntries(u) = {}
            ELSE \E i \in DOMAIN CursorEntries(u) : CursorEntries(u)[i] = seenCursor[u]
  /\ (viewEvent.type = "presence_update" /\ viewEvent.action = "left") =>
       /\ DOMAIN UserEntries(viewEvent.userId) = {}
       /\ DOMAIN CursorEntries(viewEvent.userId) = {}

\* a user seen at one position joins again at another while the other user
\* is listed too, and its cursor entry keeps the position of its cursor_update
C30_Witness ==
  /\ viewEvent.type = "presence_update"
  /\ viewEvent.action = "joined"
  /\ viewEvent.userId = 1
  /\ viewEvent.position = "p25"
  /\ Len(activeUsers) = 2
  /\ activeUsers[1].id = 2
  /\ seenCursor[1] = "p00"
  /\ Len(cursors) = 2
  /\ cursors[1].userId = 1

====
